---- MODULE Spec2Model ----
(***************************************************************************)
(* Model of two pieces of the repository:                                  *)
(*   - BoardInfo::parse of crates/rustsbi-qemu/test-kernel/src/main.rs:    *)
(*     the header filter, the visitor callback and the walk that drives    *)
(*     it over a flattened device tree (specification Spec);               *)
(*   - SifiveClint of crates/aclint/src/lib.rs: the register block, its    *)
(*     repr(C) layout and its seven accessors (specification ClintSpec).   *)
(***************************************************************************)
EXTENDS Integers, Sequences, FiniteSets, TLC

VARIABLES
    dtb,      \* the blob handed to parse: header defects, tree, structure block
    pc,       \* "start" | "walk" | "done" | "panic"
    cause,    \* why parse panicked: "none" | "header" | "unwrap" | "unreachable"
    pos,      \* index of the next token of the structure block
    ctx,      \* path of the node being walked (<<>> is the root)
    ans,      \* the BoardInfo under construction
    visited,  \* the callback's invocations, in order: token, node, decision
    mem,      \* CLINT registers, keyed by byte offset in the block
    call      \* the last accessor call on the CLINT: op, hart_idx, val, ret

vars == <<dtb, pc, cause, pos, ctx, ans, visited, mem, call>>
parseVars == <<dtb, pc, cause, pos, ctx, ans, visited>>

(***************************************************************************)
(* Bounds of the model.                                                    *)
(***************************************************************************)
MaxCpuNodes == 2    \* children generated under a "cpus" node
MaxSocNodes == 2    \* children generated under a "soc" node

(***************************************************************************)
(* 64-bit values are kept as four 16-bit limbs, most significant first.    *)
(***************************************************************************)
Zero64 == <<0, 0, 0, 0>>
Max64 == <<65535, 65535, 65535, 65535>>

\* u32::from_be_bytes([a, b, c, d]) as u64
U32FromBeBytes(v) == <<0, 0, v[1] * 256 + v[2], v[3] * 256 + v[4]>>

\* u64::from_be_bytes([a, b, c, d, e, f, g, h])
U64FromBeBytes(v) ==
    <<v[1] * 256 + v[2], v[3] * 256 + v[4], v[5] * 256 + v[6], v[7] * 256 + v[8]>>

(***************************************************************************)
(* The device tree: nodes, properties, and the flattened structure block.  *)
(***************************************************************************)
Node(name, props, kids) == [name |-> name, props |-> props, kids |-> kids]
Leaf(name) == Node(name, <<>>, <<>>)
Range(start, len) == [start |-> start, end |-> start + len]
RegProp(ranges) == [t |-> "prop", kind |-> "Reg", name |-> "reg", value |-> ranges]
GeneralProp(name, value) == [t |-> "prop", kind |-> "General", name |-> name, value |-> value]
CompatibleProp == [t |-> "prop", kind |-> "Compatible", name |-> "compatible", value |-> <<>>]

RECURSIVE Flatten(_)
RECURSIVE FlattenAll(_)
Flatten(n) ==
    <<[t |-> "begin", name |-> n.name]>> \o n.props \o FlattenAll(n.kids) \o <<[t |-> "end"]>>
FlattenAll(ns) ==
    IF ns = <<>> THEN <<>> ELSE Flatten(Head(ns)) \o FlattenAll(Tail(ns))

\* str::starts_with / Str::starts_with
StartsWith(s, p) == Len(s) >= Len(p) /\ SubSeq(s, 1, Len(p)) = p

(***************************************************************************)
(* BoardInfo::parse: the header filter and the visitor callback.           *)
(***************************************************************************)
\* The BoardInfo parse starts from: smp 0, frequency 0, uart 0.
InitialBoardInfo == [smp |-> 0, frequency |-> Zero64, uart |-> 0]

\* Mutant: every misalignment is tolerated, not only one of 4.
Filter_AnyMisalignment(e) ==
    \/ e.kind = "Misaligned"
    \/ e.kind = "LastCompVersion"

\* Mutant: the last-compatible-version defect is not tolerated.
Filter_NoLastCompVersion(e) == e.kind = "Misaligned" /\ e.value = 4

\* The closure given to from_raw_parts_filtered: the header errors tolerated.
Filter(e) ==
    \/ e.kind = "Misaligned" /\ e.value = 4
    \/ e.kind = "LastCompVersion"

\* Context::is_root and Context::name of the walker.
IsRoot(c) == c = <<>>
CtxName(c) == IF c = <<>> THEN "" ELSE c[Len(c)]

IsConsoleName(name) == StartsWith(name, "uart") \/ StartsWith(name, "serial")

\* Mutant: a "cpu@" node is counted whatever its parent.
OnSubNode_AnyCpu(c, name, a) ==
    IF c = <<>> /\ (name = "cpus" \/ name = "soc")
    THEN [op |-> "StepInto", ans |-> a]
    ELSE IF StartsWith(name, "cpu@")
    THEN [op |-> "StepOver", ans |-> [a EXCEPT !.smp = @ + 1]]
    ELSE IF (IF c = <<>> THEN "" ELSE c[Len(c)]) = "soc"
            /\ (StartsWith(name, "uart") \/ StartsWith(name, "serial"))
    THEN [op |-> "StepInto", ans |-> a]
    ELSE [op |-> "StepOver", ans |-> a]

\* Mutant: "cpus" and "soc" are entered whatever their parent.
OnSubNode_NoRootCheck(c, name, a) ==
    IF name = "cpus" \/ name = "soc"
    THEN [op |-> "StepInto", ans |-> a]
    ELSE IF (IF c = <<>> THEN "" ELSE c[Len(c)]) = "cpus" /\ StartsWith(name, "cpu@")
    THEN [op |-> "StepOver", ans |-> [a EXCEPT !.smp = @ + 1]]
    ELSE IF (IF c = <<>> THEN "" ELSE c[Len(c)]) = "soc"
            /\ (StartsWith(name, "uart") \/ StartsWith(name, "serial"))
    THEN [op |-> "StepInto", ans |-> a]
    ELSE [op |-> "StepOver", ans |-> a]

\* DtbObj::SubNode { name }
OnSubNode(c, name, a) ==
    IF IsRoot(c) /\ (name = "cpus" \/ name = "soc")
    THEN [op |-> "StepInto", ans |-> a]
    ELSE IF CtxName(c) = "cpus" /\ StartsWith(name, "cpu@")
    THEN [op |-> "StepOver", ans |-> [a EXCEPT !.smp = @ + 1]]
    ELSE IF CtxName(c) = "soc" /\ IsConsoleName(name)
    THEN [op |-> "StepInto", ans |-> a]
    ELSE [op |-> "StepOver", ans |-> a]

\* Mutant: a "reg" property is stepped over.
RegDecision_StepOver(c) == "StepOver"

\* The decision returned for a "reg" property, whatever the node.
RegDecision(c) == "StepOut"

\* DtbObj::Property(Property::Reg(reg)): reg.next().unwrap().start
OnReg(c, ranges, a) ==
    IF IsConsoleName(CtxName(c))
    THEN IF ranges = <<>>
         THEN [op |-> "Panic", cause |-> "unwrap", ans |-> a]
         ELSE [op |-> RegDecision(c), ans |-> [a EXCEPT !.uart = ranges[1].start]]
    ELSE [op |-> RegDecision(c), ans |-> a]

\* Mutant: only a 4-byte payload is decoded.
OnGeneral_Only4Bytes(c, name, value, a) ==
    IF (IF c = <<>> THEN "" ELSE c[Len(c)]) = "cpus" /\ name = "timebase-frequency"
    THEN IF Len(value) = 4
         THEN [op |-> "StepOver", ans |-> [a EXCEPT !.frequency = U32FromBeBytes(value)]]
         ELSE [op |-> "Panic", cause |-> "unreachable", ans |-> a]
    ELSE [op |-> "StepOver", ans |-> a]

\* DtbObj::Property(Property::General { name, value })
OnGeneral(c, name, value, a) ==
    IF CtxName(c) = "cpus" /\ name = "timebase-frequency"
    THEN IF Len(value) = 4
         THEN [op |-> "StepOver", ans |-> [a EXCEPT !.frequency = U32FromBeBytes(value)]]
         ELSE IF Len(value) = 8
         THEN [op |-> "StepOver", ans |-> [a EXCEPT !.frequency = U64FromBeBytes(value)]]
         ELSE [op |-> "Panic", cause |-> "unreachable", ans |-> a]
    ELSE [op |-> "StepOver", ans |-> a]

\* The closure given to walk: one arm per kind of object.
Callback(c, obj, a) ==
    IF obj.t = "begin" THEN OnSubNode(c, obj.name, a)
    ELSE IF obj.kind = "Reg" THEN OnReg(c, obj.value, a)
    ELSE IF obj.kind = "General" THEN OnGeneral(c, obj.name, obj.value, a)
    ELSE [op |-> "StepOver", ans |-> a]

(***************************************************************************)
(* The walker of the dtb_walker crate, as the callback sees it.            *)
(***************************************************************************)
\* Index of the "end" token closing the node whose content starts at i.
RECURSIVE ScanToEnd(_, _, _)
ScanToEnd(s, i, depth) ==
    IF s[i].t = "end"
    THEN IF depth = 0 THEN i ELSE ScanToEnd(s, i + 1, depth - 1)
    ELSE IF s[i].t = "begin" THEN ScanToEnd(s, i + 1, depth + 1)
    ELSE ScanToEnd(s, i + 1, depth)

\* Dtb::from_raw_parts_filtered: an error the filter rejects is returned.
HeaderResult(errors) ==
    IF \E e \in errors : ~Filter(e) THEN "Err" ELSE "Ok"

(***************************************************************************)
(* The blobs parse is run on.  Every tree is a well-formed flattened tree: *)
(* the properties of a node come before its children and sibling names    *)
(* are distinct.                                                           *)
(***************************************************************************)
Tbf(value) == GeneralProp("timebase-frequency", value)
Tbf4 == Tbf(<<0, 152, 150, 128>>)                           \* 10000000
Tbf8 == Tbf(<<0, 0, 0, 1, 0, 0, 0, 2>>)                     \* 2^32 + 2
RegAt(a) == RegProp(<<Range(a, 256)>>)

\* Sequences of length at most n over S.
SeqsUpTo(S, n) == UNION {[1..k -> S] : k \in 0..n}

\* The k-th child of a "cpus" node.
CpuKinds == {"cpu", "cpu-nested", "cpu-map"}
CpuKid(kind, k) ==
    CASE kind = "cpu" -> Node("cpu@" \o ToString(k), <<RegAt(k)>>, <<>>)
      [] kind = "cpu-nested" -> Node("cpu@" \o ToString(k), <<>>, <<Leaf("cpu@0")>>)
      [] kind = "cpu-map" -> Leaf("cpu-map" \o ToString(k))

CpusProps ==
    { <<>>, <<Tbf4>>, <<Tbf8>>, <<CompatibleProp, Tbf4>>,
      <<Tbf(<<1, 2, 3>>)>>, <<Tbf(<<>>)>>,
      <<RegAt(64), Tbf4>>, <<Tbf4, RegAt(64)>>, <<RegAt(64), Tbf(<<1, 2, 3>>)>>,
      <<GeneralProp("clock-frequency", <<0, 0, 0, 9>>)>> }

CpusNodes ==
    { Node("cpus", ps, [k \in DOMAIN ks |-> CpuKid(ks[k], k)]) :
        ps \in CpusProps, ks \in SeqsUpTo(CpuKinds, MaxCpuNodes) }

\* The k-th child of a "soc" node; console k sits at address 4096 * k.
SocKinds == {"uart", "serial", "uart-noreg", "uart-emptyreg", "cpu", "clint"}
SocKid(kind, k) ==
    CASE kind = "uart" ->
           Node("uart@" \o ToString(k),
                <<CompatibleProp, RegAt(4096 * k), Tbf4>>, <<Leaf("serial@9")>>)
      [] kind = "serial" ->
           Node("serial@" \o ToString(k),
                <<RegProp(<<Range(4096 * k, 256), Range(512, 256)>>)>>, <<>>)
      [] kind = "uart-noreg" ->
           Node("uart" \o ToString(k), <<CompatibleProp>>,
                <<Leaf("cpu@0"),
                  Node("cpus", <<Tbf8>>, <<Leaf("cpu@1")>>),
                  Node("soc", <<>>, <<Node("uart@8", <<RegAt(8)>>, <<>>)>>)>>)
      [] kind = "uart-emptyreg" ->
           Node("uart@" \o ToString(k), <<RegProp(<<>>)>>, <<>>)
      [] kind = "cpu" -> Leaf("cpu@" \o ToString(k))
      [] kind = "clint" -> Node("clint@" \o ToString(k), <<RegAt(128)>>, <<>>)

SocProps == { <<>>, <<RegAt(64)>>, <<Tbf4>> }

SocNodes ==
    { Node("soc", ps, [k \in DOMAIN ks |-> SocKid(ks[k], k)]) :
        ps \in SocProps, ks \in SeqsUpTo(SocKinds, MaxSocNodes) }

\* The board of the spec's example: two harts, 10 MHz, one uart.
BoardCpus == Node("cpus", <<Tbf4>>, <<CpuKid("cpu", 1), CpuKid("cpu", 2)>>)
BoardSoc == Node("soc", <<>>, <<SocKid("uart", 1)>>)

\* A root-level node is given as a sequence: <<>> when the node is absent.
FewCpus == { <<>>, <<BoardCpus>>, <<Node("cpus", <<RegAt(64), Tbf4>>, <<CpuKid("cpu", 1)>>)>> }
FewSoc == { <<>>, <<BoardSoc>>, <<Node("soc", <<RegAt(64)>>, <<SocKid("uart", 1)>>)>> }

\* What the root holds besides "cpus" and "soc".
RootShapes ==
    { [props |-> <<>>, tail |-> <<>>],
      [props |-> <<RegAt(64)>>, tail |-> <<>>],
      [props |-> <<Tbf8>>,
       tail |-> <<Node("uart@9", <<RegAt(32768)>>, <<>>), Leaf("cpu@7")>>] }

Trees ==
    { Node("", r.props, (IF cpusFirst THEN c \o s ELSE s \o c) \o r.tail) :
        r \in RootShapes,
        cpusFirst \in BOOLEAN,
        <<c, s>> \in ({<<n>> : n \in CpusNodes} \X FewSoc)
                     \cup (FewCpus \X {<<n>> : n \in SocNodes}) }

\* Defects of the blob's header, as from_raw_parts_filtered reports them.
HeaderErrors ==
    { {},
      {[kind |-> "Misaligned", value |-> 4]},
      {[kind |-> "LastCompVersion", value |-> 15]},
      {[kind |-> "Misaligned", value |-> 4], [kind |-> "LastCompVersion", value |-> 15]},
      {[kind |-> "Magic", value |-> 0]},
      {[kind |-> "Misaligned", value |-> 2]},
      {[kind |-> "LastCompVersion", value |-> 15], [kind |-> "TotalSize", value |-> 0]} }

(***************************************************************************)
(* The state machine of BoardInfo::parse.                                  *)
(***************************************************************************)
ParseInit ==
    /\ \E e \in HeaderErrors, root \in Trees :
          dtb = [errors |-> e, root |-> root, structure |-> Flatten(root)]
    /\ pc = "start"
    /\ cause = "none"
    /\ pos = 1
    /\ ctx = <<>>
    /\ ans = InitialBoardInfo
    /\ visited = <<>>

\* Dtb::from_raw_parts_filtered(..).unwrap(): Ok starts the walk below the root.
FromRawParts ==
    /\ pc = "start"
    /\ IF HeaderResult(dtb.errors) = "Ok"
       THEN /\ pc' = "walk"
            /\ pos' = 2
            /\ cause' = cause
       ELSE /\ pc' = "panic"
            /\ cause' = "header"
            /\ pos' = pos
    /\ UNCHANGED <<dtb, ctx, ans, visited, mem, call>>

\* One invocation of the callback, as the log keeps it.
Visit(i, c, op) == [at |-> i, node |-> CtxName(c), op |-> op]

\* The walker on the object at i: it invokes the callback and obeys its answer.
\* StepInto enters a child, StepOver skips it; on a property StepOut abandons
\* the rest of the current node and anything else goes to the next object.
OnObject(s, i, c, a) ==
    LET r == Callback(c, s[i], a)
    IN IF r.op = "Panic"
       THEN [pc |-> "panic", cause |-> r.cause, pos |-> i, ctx |-> c, ans |-> r.ans, op |-> r.op]
       ELSE IF s[i].t = "begin"
       THEN IF r.op = "StepInto"
            THEN [pc |-> "walk", cause |-> "none", pos |-> i + 1,
                  ctx |-> Append(c, s[i].name), ans |-> r.ans, op |-> r.op]
            ELSE [pc |-> "walk", cause |-> "none", pos |-> ScanToEnd(s, i + 1, 0) + 1,
                  ctx |-> c, ans |-> r.ans, op |-> r.op]
       ELSE [pc |-> "walk", cause |-> "none",
             pos |-> IF r.op = "StepOut" THEN ScanToEnd(s, i + 1, 0) ELSE i + 1,
             ctx |-> c, ans |-> r.ans, op |-> r.op]

\* The walk reaches a child node: the callback decides to enter or to skip it.
VisitSubNode ==
    /\ pc = "walk"
    /\ dtb.structure[pos].t = "begin"
    /\ LET n == OnObject(dtb.structure, pos, ctx, ans)
       IN /\ pc' = n.pc
          /\ cause' = n.cause
          /\ pos' = n.pos
          /\ ctx' = n.ctx
          /\ ans' = n.ans
          /\ visited' = Append(visited, Visit(pos, ctx, n.op))
    /\ UNCHANGED <<dtb, mem, call>>

\* The walk reaches a property: the callback reads it, or panics on it.
VisitProperty ==
    /\ pc = "walk"
    /\ dtb.structure[pos].t = "prop"
    /\ LET n == OnObject(dtb.structure, pos, ctx, ans)
       IN /\ pc' = n.pc
          /\ cause' = n.cause
          /\ pos' = n.pos
          /\ ctx' = n.ctx
          /\ ans' = n.ans
          /\ visited' = Append(visited, Visit(pos, ctx, n.op))
    /\ UNCHANGED <<dtb, mem, call>>

\* The end of a node other than the root: back to its parent.
LeaveNode ==
    /\ pc = "walk"
    /\ dtb.structure[pos].t = "end"
    /\ ctx # <<>>
    /\ ctx' = SubSeq(ctx, 1, Len(ctx) - 1)
    /\ pos' = pos + 1
    /\ UNCHANGED <<dtb, pc, cause, ans, visited, mem, call>>

\* The end of the root: walk returns and parse returns ans.
Return ==
    /\ pc = "walk"
    /\ dtb.structure[pos].t = "end"
    /\ ctx = <<>>
    /\ pc' = "done"
    /\ UNCHANGED <<dtb, cause, pos, ctx, ans, visited, mem, call>>

\* The outcome of walk from position i on: the same steps, run to the end.
RECURSIVE WalkFrom(_, _, _, _)
WalkFrom(s, i, c, a) ==
    IF s[i].t = "end"
    THEN IF c = <<>>
         THEN [pc |-> "done", cause |-> "none", ans |-> a]
         ELSE WalkFrom(s, i + 1, SubSeq(c, 1, Len(c) - 1), a)
    ELSE LET n == OnObject(s, i, c, a)
         IN IF n.pc = "panic"
            THEN [pc |-> "panic", cause |-> n.cause, ans |-> n.ans]
            ELSE WalkFrom(s, n.pos, n.ctx, n.ans)

(***************************************************************************)
(* SifiveClint: the repr(C) layout of the register block.                  *)
(***************************************************************************)
NumHarts == 2       \* harts 0..NumHarts-1 are modelled, and the last slot

AlignUp(x, a) == ((x + a - 1) \div a) * a

\* repr(C): each field at the next offset aligned for it, in declaration order.
RECURSIVE FieldOffsets(_, _)
FieldOffsets(fields, at) ==
    IF fields = <<>> THEN <<>>
    ELSE LET o == AlignUp(at, Head(fields).align)
         IN <<o>> \o FieldOffsets(Tail(fields), o + Head(fields).size)

RECURSIVE MaxAlign(_)
MaxAlign(fields) ==
    IF fields = <<>> THEN 1
    ELSE LET m == MaxAlign(Tail(fields))
         IN IF Head(fields).align > m THEN Head(fields).align ELSE m

\* repr(C): the size is the end of the last field, rounded up to the alignment.
StructTy(fields) ==
    LET offs == FieldOffsets(fields, 0)
        n == Len(fields)
    IN [offsets |-> offs,
        align |-> MaxAlign(fields),
        size |-> AlignUp(offs[n] + fields[n].size, MaxAlign(fields))]

ArrayTy(elem, n) == [size |-> n * elem.size, align |-> elem.align, len |-> n]

U32Ty == [size |-> 4, align |-> 4]
U64Ty == [size |-> 8, align |-> 8]
\* repr(transparent) over UnsafeCell<u64> / UnsafeCell<u32>
MTIME == U64Ty
MTIMECMP == U64Ty
MSIP == U32Ty
SETSSIP == U32Ty

MsipArray == ArrayTy(MSIP, 4095)
SetssipArray == ArrayTy(SETSSIP, 4095)
MtimecmpArray == ArrayTy(MTIMECMP, 4095)

\* Mutant: the reserved slot after the msip array is left out.
MSWI_NoReserved == StructTy(<<MsipArray>>)

\* msip, _reserved
MSWI == StructTy(<<MsipArray, U32Ty>>)
\* setssip, _reserved
SSWI == StructTy(<<SetssipArray, U32Ty>>)
\* mswi, mtimecmp, mtime
SifiveClint == StructTy(<<MSWI, MtimecmpArray, MTIME>>)

\* Byte offset, in the block, of the register an accessor touches.
MsipAddr(i) == SifiveClint.offsets[1] + MSWI.offsets[1] + i * MSIP.size
MtimecmpAddr(i) == SifiveClint.offsets[2] + i * MTIMECMP.size
MtimeAddr == SifiveClint.offsets[3]
\* The _reserved slot of MSWI: the four bytes that follow the msip array.
ReservedAddr == SifiveClint.offsets[1] + MSWI.offsets[1] + MsipArray.size

(***************************************************************************)
(* SifiveClint: the registers and the accessors.                           *)
(***************************************************************************)
\* The harts whose registers are modelled: the first ones and the last slot.
Harts == (0..(NumHarts - 1)) \cup {MsipArray.len - 1}
\* The hart_idx arguments tried: the above, and the first one past the arrays.
HartArgs == Harts \cup {MsipArray.len}
\* The harts that issue the calls.
Callers == {0, 1}
U32Values == {0, 1, 5}
U64Values == {Zero64, Max64}

MsipRegs == {MsipAddr(i) : i \in Harts}
MtimecmpRegs == {MtimecmpAddr(i) : i \in Harts}
Registers == MsipRegs \cup {ReservedAddr} \cup MtimecmpRegs \cup {MtimeAddr}

\* Mutant: the index check is off by one.
InBounds_OffByOne(arr, hart_idx) == hart_idx <= arr.len

\* self.mswi.msip[hart_idx] / self.mtimecmp[hart_idx]: the index is checked.
InBounds(arr, hart_idx) == hart_idx < arr.len

\* A call returns a value, or panics on the index check.
Returned(v) == [panic |-> FALSE, value |-> v]
Panicked == [panic |-> TRUE, value |-> "none"]
Unit == Returned("unit")

NoCall == [op |-> "none", by |-> 0, hart_idx |-> 0, val |-> Zero64, ret |-> Unit]
CallOf(op, by, hart_idx, val, ret) ==
    [op |-> op, by |-> by, hart_idx |-> hart_idx, val |-> val, ret |-> ret]

\* What the three readers return in a state of the registers.
read_mtime(m) == m[MtimeAddr]
read_mtimecmp(m, hart_idx) == m[MtimecmpAddr(hart_idx)]
read_msip(m, hart_idx) == m[MsipAddr(hart_idx)] # 0

\* Mutant: the counter write lands in hart 0's compare register.
write_mtime_WrongRegister(m, val) == [m EXCEPT ![MtimecmpAddr(0)] = val]

\* Mutant: only the low 32 bits of the compare value are written.
write_mtimecmp_Truncated(m, hart_idx, val) ==
    [m EXCEPT ![MtimecmpAddr(hart_idx)] = <<0, 0, val[3], val[4]>>]

\* Mutant: set_msip writes 0, as clear_msip does.
set_msip_WritesZero(m, hart_idx) == [m EXCEPT ![MsipAddr(hart_idx)] = 0]

\* Mutant: set_msip ORs bit 0 into the value it reads (a read-modify-write).
set_msip_ReadModifyWrite(m, hart_idx) ==
    [m EXCEPT ![MsipAddr(hart_idx)] = IF @ % 2 = 1 THEN @ ELSE @ + 1]

\* Mutant: clear_msip also zeroes the same hart's compare register.
clear_msip_ClearsTimer(m, hart_idx) ==
    [m EXCEPT ![MsipAddr(hart_idx)] = 0, ![MtimecmpAddr(hart_idx)] = Zero64]

\* What the four writers leave in the registers.
write_mtime(m, val) == [m EXCEPT ![MtimeAddr] = val]
write_mtimecmp(m, hart_idx, val) == [m EXCEPT ![MtimecmpAddr(hart_idx)] = val]
set_msip(m, hart_idx) == [m EXCEPT ![MsipAddr(hart_idx)] = 1]
clear_msip(m, hart_idx) == [m EXCEPT ![MsipAddr(hart_idx)] = 0]

ReadMtime ==
    /\ \E by \in Callers :
          call' = CallOf("read_mtime", by, 0, Zero64, Returned(read_mtime(mem)))
    /\ UNCHANGED <<mem, parseVars>>

WriteMtime ==
    /\ \E by \in Callers, val \in U64Values :
          /\ mem' = write_mtime(mem, val)
          /\ call' = CallOf("write_mtime", by, 0, val, Unit)
    /\ UNCHANGED parseVars

ReadMtimecmp ==
    /\ \E by \in Callers, hart_idx \in HartArgs :
          call' = CallOf("read_mtimecmp", by, hart_idx, Zero64,
                         IF InBounds(MtimecmpArray, hart_idx)
                         THEN Returned(read_mtimecmp(mem, hart_idx)) ELSE Panicked)
    /\ UNCHANGED <<mem, parseVars>>

WriteMtimecmp ==
    /\ \E by \in Callers, hart_idx \in HartArgs, val \in U64Values :
          IF InBounds(MtimecmpArray, hart_idx)
          THEN /\ mem' = write_mtimecmp(mem, hart_idx, val)
               /\ call' = CallOf("write_mtimecmp", by, hart_idx, val, Unit)
          ELSE /\ mem' = mem
               /\ call' = CallOf("write_mtimecmp", by, hart_idx, val, Panicked)
    /\ UNCHANGED parseVars

ReadMsip ==
    /\ \E by \in Callers, hart_idx \in HartArgs :
          call' = CallOf("read_msip", by, hart_idx, Zero64,
                         IF InBounds(MsipArray, hart_idx)
                         THEN Returned(read_msip(mem, hart_idx)) ELSE Panicked)
    /\ UNCHANGED <<mem, parseVars>>

SetMsip ==
    /\ \E by \in Callers, hart_idx \in HartArgs :
          IF InBounds(MsipArray, hart_idx)
          THEN /\ mem' = set_msip(mem, hart_idx)
               /\ call' = CallOf("set_msip", by, hart_idx, Zero64, Unit)
          ELSE /\ mem' = mem
               /\ call' = CallOf("set_msip", by, hart_idx, Zero64, Panicked)
    /\ UNCHANGED parseVars

ClearMsip ==
    /\ \E by \in Callers, hart_idx \in HartArgs :
          IF InBounds(MsipArray, hart_idx)
          THEN /\ mem' = clear_msip(mem, hart_idx)
               /\ call' = CallOf("clear_msip", by, hart_idx, Zero64, Unit)
          ELSE /\ mem' = mem
               /\ call' = CallOf("clear_msip", by, hart_idx, Zero64, Panicked)
    /\ UNCHANGED parseVars

\* The block is never constructed: the registers hold whatever the device holds.
ClintInit ==
    /\ \E ipi \in [MsipRegs -> U32Values],
          timer \in [MtimecmpRegs \cup {MtimeAddr} -> U64Values] :
          mem = [r \in Registers |->
                    IF r \in MsipRegs THEN ipi[r]
                    ELSE IF r = ReservedAddr THEN 0 ELSE timer[r]]
    /\ call = NoCall

ClintNext ==
    \/ ReadMtime \/ WriteMtime \/ ReadMtimecmp \/ WriteMtimecmp
    \/ ReadMsip \/ SetMsip \/ ClearMsip

(***************************************************************************)
(* The two specifications.                                                 *)
(***************************************************************************)
\* parse runs before the CLINT is touched.
Init ==
    /\ ParseInit
    /\ mem = [r \in Registers |->
                 IF r \in MsipRegs \cup {ReservedAddr} THEN 0 ELSE Zero64]
    /\ call = NoCall

Next == FromRawParts \/ VisitSubNode \/ VisitProperty \/ LeaveNode \/ Return

Spec == Init /\ [][Next]_vars

\* parse is one synchronous call: once started, it keeps running.
FairSpec == Spec /\ WF_vars(Next)

\* The accessors run once parse has returned the board of the spec's example.
ClintSpecInit ==
    /\ ClintInit
    /\ dtb = [errors |-> {}, root |-> Node("", <<>>, <<>>),
              structure |-> Flatten(Node("", <<>>, <<>>))]
    /\ pc = "done"
    /\ cause = "none"
    /\ pos = 2
    /\ ctx = <<>>
    /\ ans = InitialBoardInfo
    /\ visited = <<>>

ClintSpec == ClintSpecInit /\ [][ClintNext]_vars

(***************************************************************************)
(* What the claims say about a blob, read off its tree.                    *)
(***************************************************************************)
KidsNamed(n, name) == SelectSeq(n.kids, LAMBDA k : k.name = name)
RegsOf(n) == SelectSeq(n.props, LAMBDA p : p.kind = "Reg")
HasReg(n) == RegsOf(n) # <<>>
TbfsOf(n) == SelectSeq(n.props, LAMBDA p : p.kind = "General" /\ p.name = "timebase-frequency")
ConsoleKids(n) == SelectSeq(n.kids, LAMBDA k : StartsWith(k.name, "uart") \/ StartsWith(k.name, "serial"))
CpuKids(n) == SelectSeq(n.kids, LAMBDA k : StartsWith(k.name, "cpu@"))

HasCpus == KidsNamed(dtb.root, "cpus") # <<>>
CpusNode == KidsNamed(dtb.root, "cpus")[1]
HasSoc == KidsNamed(dtb.root, "soc") # <<>>
SocNode == KidsNamed(dtb.root, "soc")[1]

\* The header is conformant or has only the two tolerated defects.
HeaderTolerated ==
    \A e \in dtb.errors :
        \/ e.kind = "Misaligned" /\ e.value = 4
        \/ e.kind = "LastCompVersion"

\* Tokens of the node that holds token i - 1 which come after it, at its level.
RECURSIVE Followers(_, _, _)
Followers(s, j, depth) ==
    IF s[j].t = "end"
    THEN IF depth = 0 THEN {} ELSE Followers(s, j + 1, depth - 1)
    ELSE (IF depth = 0 THEN {j} ELSE {})
         \cup Followers(s, j + 1, IF s[j].t = "begin" THEN depth + 1 ELSE depth)

VisitedAt == {visited[k].at : k \in DOMAIN visited}

\* C1: with two or more uart/serial children under "soc", each carrying a reg
\* property, parse returns the first range's start of the FIRST such child.
\* Stated for blobs whose root and "soc" carry no reg property of their own.
C1_FirstConsoleWins ==
    ( /\ pc = "done"
      /\ HasSoc
      /\ ~HasReg(dtb.root)
      /\ ~HasReg(SocNode)
      /\ Len(ConsoleKids(SocNode)) >= 2
      /\ \A k \in DOMAIN ConsoleKids(SocNode) :
            /\ HasReg(ConsoleKids(SocNode)[k])
            /\ RegsOf(ConsoleKids(SocNode)[k])[1].value # <<>> )
    => ans.uart = RegsOf(ConsoleKids(SocNode)[1])[1].value[1].start

\* C2: a reg property seen in a node that is no uart/serial node is stepped
\* over: once parse has returned, every property and child that follows it in
\* that node has been presented to the callback.  Stated for "cpus" and "soc".
C2_RegElsewhereSteppedOver ==
    pc = "done" =>
        \A k \in DOMAIN visited :
            ( /\ dtb.structure[visited[k].at].t = "prop"
              /\ dtb.structure[visited[k].at].kind = "Reg"
              /\ visited[k].node \in {"cpus", "soc"} )
            => /\ visited[k].op = "StepOver"
               /\ Followers(dtb.structure, visited[k].at + 1, 0) \subseteq VisitedAt

\* C3: parse returns as core count the number of direct children of the
\* root-level "cpus" node whose name starts with "cpu@".  Stated for blobs
\* whose root carries no reg property of its own.
C3_CoreCountIsCpuChildren ==
    (pc = "done" /\ ~HasReg(dtb.root)) =>
        ans.smp = IF HasCpus THEN Len(CpuKids(CpusNode)) ELSE 0

\* Every reg property holds a range and every timebase-frequency payload is
\* 4 or 8 bytes long.
PayloadsWellFormed ==
    \A i \in DOMAIN dtb.structure :
        dtb.structure[i].t = "prop" =>
            /\ dtb.structure[i].kind = "Reg" => dtb.structure[i].value # <<>>
            /\ (dtb.structure[i].kind = "General" /\ dtb.structure[i].name = "timebase-frequency")
                  => Len(dtb.structure[i].value) \in {4, 8}

\* C4: missing data is not an error.  Without a root-level "cpus" node the
\* core count and the frequency stay 0; without a "soc" node, or without a
\* uart/serial child under it, the console address stays 0; with a "cpus"
\* node that has no timebase-frequency property the frequency stays 0; and
\* on a well-formed blob parse never panics, whatever is missing.
C4_MissingDataKeepsDefaults ==
    /\ ~HasCpus => (ans.smp = 0 /\ ans.frequency = Zero64)
    /\ (~HasSoc \/ ConsoleKids(SocNode) = <<>>) => ans.uart = 0
    /\ (HasCpus /\ TbfsOf(CpusNode) = <<>>) => ans.frequency = Zero64
    /\ (HeaderTolerated /\ PayloadsWellFormed) => pc # "panic"

\* parse has returned on a blob without "cpus" that holds a "cpu@" node
\* at the root and a uart node outside "soc".
C4_Witness ==
    /\ pc = "done"
    /\ ~HasCpus
    /\ CpuKids(dtb.root) # <<>>
    /\ ConsoleKids(dtb.root) # <<>>
    /\ Len(visited) >= 2
    /\ ans = InitialBoardInfo

\* C5: a header defect other than a misalignment of 4 or an outdated
\* last-compatible-version marker makes parse panic before the callback is
\* invoked once; parse never returns a BoardInfo.
C5_FatalHeaderAborts ==
    ~HeaderTolerated =>
        /\ pc \in {"start", "panic"}
        /\ pc = "panic" => cause = "header"
        /\ visited = <<>>

\* parse has panicked on a corrupted magic.
C5_Witness ==
    /\ pc = "panic"
    /\ cause = "header"
    /\ \E e \in dtb.errors : e.kind = "Magic"
    /\ HasCpus

Made(op) == call'.op = op /\ ~call'.ret.panic

\* C7: after set_msip(i), read_msip(i) is true and read_msip(j) is as before
\* for every other hart j; after clear_msip(i), read_msip(i) is false and
\* read_msip(j) is as before; and read_msip(i) returns true exactly when
\* register i holds a non-zero value.
C7_MsipSetClearRead ==
    [][ /\ Made("set_msip") =>
              /\ read_msip(mem', call'.hart_idx)
              /\ \A j \in Harts \ {call'.hart_idx} : read_msip(mem', j) = read_msip(mem, j)
        /\ Made("clear_msip") =>
              /\ ~read_msip(mem', call'.hart_idx)
              /\ \A j \in Harts \ {call'.hart_idx} : read_msip(mem', j) = read_msip(mem, j)
        /\ Made("read_msip") =>
              (call'.ret.value <=> mem[MsipAddr(call'.hart_idx)] # 0)
      ]_vars

\* set_msip has just run on the last hart while another hart's register
\* holds a value that is neither 0 nor 1.
C7_Witness ==
    /\ call.op = "set_msip"
    /\ call.hart_idx = MsipArray.len - 1
    /\ ~call.ret.panic
    /\ mem[MsipAddr(call.hart_idx)] = 1
    /\ mem[MsipAddr(0)] = 5

\* C8: write_mtimecmp(i, v) followed by read_mtimecmp(i) returns v, for v
\* among 0 and 2^64 - 1, and read_mtimecmp(k) is as before for every k # i.
C8_MtimecmpRoundTrip ==
    [][ /\ Made("write_mtimecmp") =>
              /\ read_mtimecmp(mem', call'.hart_idx) = call'.val
              /\ \A k \in Harts \ {call'.hart_idx} :
                    read_mtimecmp(mem', k) = read_mtimecmp(mem, k)
        /\ Made("read_mtimecmp") =>
              call'.ret.value = mem[MtimecmpAddr(call'.hart_idx)]
      ]_vars

\* 2^64 - 1 has just been written to hart 1's compare register while hart
\* 0's holds 0.
C8_Witness ==
    /\ call.op = "write_mtimecmp"
    /\ call.hart_idx = 1
    /\ call.val = Max64
    /\ mem[MtimecmpAddr(1)] = Max64
    /\ mem[MtimecmpAddr(0)] = Zero64

\* C9: write_mtime(v) followed by read_mtime() returns v, and read_mtime()
\* returns the one counter register whichever hart calls it.
C9_MtimeRoundTrip ==
    [][ /\ Made("write_mtime") => read_mtime(mem') = call'.val
        /\ Made("read_mtime") => call'.ret.value = mem[MtimeAddr]
      ]_vars

\* Hart 1 has just read back the 2^64 - 1 that was written to the counter.
C9_Witness ==
    /\ call.op = "read_mtime"
    /\ call.by = 1
    /\ call.ret.value = Max64

\* C10: MSWI and SSWI are 0x4000 bytes each, the compare array is 0x7ff8
\* bytes, the block is 0xc000 bytes, in the order IPI array, compare array,
\* counter with no padding: compare slot i is at 0x4000 + 8 * i and the
\* counter at 0xbff8, and that is where the writers write.
C10_LayoutBitExact ==
    /\ MSWI.size = 16384
    /\ SSWI.size = 16384
    /\ MsipArray.size + U32Ty.size = MSWI.size
    /\ MtimecmpArray.size = 32760
    /\ SifiveClint.size = 49152
    /\ SifiveClint.offsets = <<0, MSWI.size, MSWI.size + MtimecmpArray.size>>
    /\ SifiveClint.size = MSWI.size + MtimecmpArray.size + MTIME.size
    /\ \A i \in Harts : MtimecmpAddr(i) = 16384 + 8 * i
    /\ MtimeAddr = 49144
    /\ (call.op = "write_mtimecmp" /\ ~call.ret.panic)
          => mem[16384 + 8 * call.hart_idx] = call.val
    /\ call.op = "write_mtime" => mem[49144] = call.val

\* The last compare slot, at 0xbff0, has just been written.
C10_Witness ==
    /\ call.op = "write_mtimecmp"
    /\ call.hart_idx = 4094
    /\ mem[49136] = Max64
    /\ mem[49144] = Zero64

\* The accessors that take a hart index.
PerHartOps == {"read_msip", "set_msip", "clear_msip", "read_mtimecmp", "write_mtimecmp"}

\* C11: a per-hart accessor called with hart_idx >= 4095 panics, and it
\* panics only then; no register of the block changes value, neither another
\* hart's slot, nor the reserved slot, nor a neighbouring field.
C11_OutOfRangeIndexPanics ==
    [][ call'.op \in PerHartOps =>
            /\ call'.ret.panic <=> call'.hart_idx >= 4095
            /\ call'.hart_idx >= 4095 => mem' = mem
      ]_vars

\* write_mtimecmp(4095, 2^64 - 1) has panicked; the counter, which follows
\* the compare array, still holds 0.
C11_Witness ==
    /\ call.op = "write_mtimecmp"
    /\ call.hart_idx = 4095
    /\ call.val = Max64
    /\ call.ret.panic
    /\ mem[MtimeAddr] = Zero64
    /\ MtimecmpAddr(4095) = MtimeAddr

WriteOps == {"set_msip", "clear_msip", "write_mtimecmp", "write_mtime"}
ReadOps == {"read_msip", "read_mtimecmp", "read_mtime"}

\* The one register a call addresses, and the value a writing call stores.
TargetOf(c) ==
    CASE c.op \in {"read_msip", "set_msip", "clear_msip"} -> MsipAddr(c.hart_idx)
      [] c.op \in {"read_mtimecmp", "write_mtimecmp"} -> MtimecmpAddr(c.hart_idx)
      [] OTHER -> MtimeAddr
StoredBy(c) ==
    CASE c.op = "set_msip" -> 1
      [] c.op = "clear_msip" -> 0
      [] OTHER -> c.val

\* C12: under every interleaving of the accessors issued by several harts,
\* each call is one whole-register access: a writer stores its value in its
\* register whatever the register held (no read-modify-write), so the register
\* holds the most recent write; set_msip/clear_msip leave 0 or 1; a reader
\* changes nothing and returns the whole value its register holds.
C12_OneWholeRegisterAccess ==
    [][ ~call'.ret.panic =>
            /\ call'.op \in WriteOps =>
                  mem' = [mem EXCEPT ![TargetOf(call')] = StoredBy(call')]
            /\ call'.op \in {"set_msip", "clear_msip"} =>
                  mem'[TargetOf(call')] \in {0, 1}
            /\ call'.op \in ReadOps => mem' = mem
            /\ call'.op = "read_msip" =>
                  call'.ret.value = (mem[TargetOf(call')] # 0)
            /\ call'.op \in {"read_mtimecmp", "read_mtime"} =>
                  call'.ret.value = mem[TargetOf(call')]
      ]_vars

\* Caller 1 has set hart 0's IPI register while hart 1's register holds 0 and
\* the compare register of hart 0 holds 2^64 - 1.
C12_Witness ==
    /\ call.op = "set_msip"
    /\ call.by = 1
    /\ call.hart_idx = 0
    /\ ~call.ret.panic
    /\ mem[MsipAddr(0)] = 1
    /\ mem[MsipAddr(1)] = 0
    /\ mem[MtimecmpAddr(0)] = Max64

\* C17: the register groups are isolated: set_msip and clear_msip leave the
\* compare registers and the counter unchanged, write_mtimecmp leaves the IPI
\* registers and the counter unchanged, write_mtime leaves the IPI and the
\* compare registers unchanged, and the readers change no register.
C17_GroupsIsolated ==
    [][ /\ call'.op \in {"set_msip", "clear_msip"} =>
              \A r \in MtimecmpRegs \cup {MtimeAddr} : mem'[r] = mem[r]
        /\ call'.op = "write_mtimecmp" =>
              \A r \in MsipRegs \cup {ReservedAddr, MtimeAddr} : mem'[r] = mem[r]
        /\ call'.op = "write_mtime" =>
              \A r \in MsipRegs \cup {ReservedAddr} \cup MtimecmpRegs : mem'[r] = mem[r]
        /\ call'.op \in ReadOps =>
              \A r \in Registers : mem'[r] = mem[r]
      ]_vars

\* clear_msip(1) has returned; the compare registers and the counter hold
\* 2^64 - 1 and the other IPI registers hold non-zero values.
C17_Witness ==
    /\ call.op = "clear_msip"
    /\ call.hart_idx = 1
    /\ ~call.ret.panic
    /\ mem[MsipAddr(1)] = 0
    /\ mem[MsipAddr(0)] = 5
    /\ \A r \in MtimecmpRegs \cup {MtimeAddr} : mem[r] = Max64

\* A payload of at most 8 bytes read as a big-endian unsigned integer.
PadTo8(v) == [k \in 1..8 |-> IF k <= 8 - Len(v) THEN 0 ELSE v[k - (8 - Len(v))]]
BigEndian(v) == [j \in 1..4 |-> PadTo8(v)[2 * j - 1] * 256 + PadTo8(v)[2 * j]]

\* C13: when the root-level "cpus" node carries a "timebase-frequency"
\* property of 4 or 8 bytes, parse returns the payload read as a big-endian
\* unsigned integer; when "cpus" is absent or carries no such property, the
\* property in the root, in "soc" or in a uart/serial node leaves the
\* frequency at 0.  Stated for blobs whose root carries no reg property.
C13_TimebaseFrequencyDecoded ==
    (pc = "done" /\ ~HasReg(dtb.root)) =>
        IF HasCpus /\ TbfsOf(CpusNode) # <<>>
        THEN Len(TbfsOf(CpusNode)[1].value) \in {4, 8}
                => ans.frequency = BigEndian(TbfsOf(CpusNode)[1].value)
        ELSE ans.frequency = Zero64

\* C18: a "timebase-frequency" property of the root-level "cpus" node whose
\* payload is neither 4 nor 8 bytes long makes parse panic: it never returns
\* a BoardInfo.  Stated for blobs whose root carries no reg property.
C18_BadFrequencyLengthPanics ==
    ( /\ HasCpus
      /\ ~HasReg(dtb.root)
      /\ \E k \in DOMAIN TbfsOf(CpusNode) : Len(TbfsOf(CpusNode)[k].value) \notin {4, 8} )
    => pc # "done"

\* C19: a reg property without ranges in a uart/serial node under "soc" makes
\* parse panic: it never returns a BoardInfo.  Stated for blobs whose root
\* carries no reg property.
C19_EmptyConsoleRegPanics ==
    ( /\ HasSoc
      /\ ~HasReg(dtb.root)
      /\ \E k \in DOMAIN ConsoleKids(SocNode) :
            /\ HasReg(ConsoleKids(SocNode)[k])
            /\ RegsOf(ConsoleKids(SocNode)[k])[1].value = <<>> )
    => pc # "done"

\* The names of the nodes that enclose token i, outermost first, the root
\* left out: read off the blob, not off the walker's context.
RECURSIVE PathTo(_, _, _, _)
PathTo(s, j, i, stack) ==
    IF j = i THEN stack
    ELSE PathTo(s, j + 1, i,
                IF s[j].t = "begin" THEN Append(stack, s[j].name)
                ELSE IF s[j].t = "end" THEN SubSeq(stack, 1, Len(stack) - 1)
                ELSE stack)
PathOf(s, i) == PathTo(s, 2, i, <<>>)

IsConsole(name) == StartsWith(name, "uart") \/ StartsWith(name, "serial")

\* C14: the only nodes stepped into are "cpus" and "soc" directly under the
\* root and uart/serial nodes directly under "soc"; every other node presented
\* to the callback is stepped over, so every object presented is a property or
\* a child of the root, of root-level "cpus" or "soc", or of a uart/serial
\* node under "soc".
C14_DepthBoundedStepping ==
    \A k \in DOMAIN visited :
        LET i == visited[k].at
            p == PathOf(dtb.structure, i)
            tok == dtb.structure[i]
        IN /\ \/ p \in {<<>>, <<"cpus">>, <<"soc">>}
              \/ Len(p) = 2 /\ p[1] = "soc" /\ IsConsole(p[2])
           /\ tok.t = "begin" =>
                 visited[k].op =
                    IF \/ p = <<>> /\ tok.name \in {"cpus", "soc"}
                       \/ p = <<"soc">> /\ IsConsole(tok.name)
                    THEN "StepInto" ELSE "StepOver"

\* parse has returned after stepping over a "cpus" node and a "soc" node
\* that are children of a uart node, and a uart node that is a child of the root.
C14_Witness ==
    /\ pc = "done"
    /\ \E k \in DOMAIN visited :
          /\ dtb.structure[visited[k].at] = [t |-> "begin", name |-> "cpus"]
          /\ Len(PathOf(dtb.structure, visited[k].at)) = 2
          /\ visited[k].op = "StepOver"
    /\ \E k \in DOMAIN visited :
          /\ dtb.structure[visited[k].at] = [t |-> "begin", name |-> "soc"]
          /\ Len(PathOf(dtb.structure, visited[k].at)) = 2
          /\ visited[k].op = "StepOver"
    /\ \E k \in DOMAIN visited :
          /\ dtb.structure[visited[k].at] = [t |-> "begin", name |-> "uart@9"]
          /\ PathOf(dtb.structure, visited[k].at) = <<>>
          /\ visited[k].op = "StepOver"

\* The tokens from j on that lie in the node holding token j, at any depth,
\* its closing token included.
RECURSIVE RestOfNode(_, _, _)
RestOfNode(s, j, depth) ==
    IF s[j].t = "end"
    THEN {j} \cup (IF depth = 0 THEN {} ELSE RestOfNode(s, j + 1, depth - 1))
    ELSE {j} \cup RestOfNode(s, j + 1, IF s[j].t = "begin" THEN depth + 1 ELSE depth)

\* The object at i is a reg property of a uart/serial node under "soc".
IsConsoleReg(s, i) ==
    /\ s[i].t = "prop"
    /\ s[i].kind = "Reg"
    /\ LET p == PathOf(s, i)
       IN Len(p) = 2 /\ p[1] = "soc" /\ IsConsole(p[2])

\* The reg properties presented in a uart/serial node under "soc".
ConsoleRegVisits ==
    {k \in DOMAIN visited :
        visited[k].op # "Panic" /\ IsConsoleReg(dtb.structure, visited[k].at)}

\* C15: step-out on the reg property of a uart/serial node under "soc"
\* abandons only that node: nothing that follows the reg inside the node is
\* presented to the callback, every later sibling of the node under "soc" has
\* been presented once parse has returned, and a blob with several uart/serial
\* nodes, otherwise well-formed, never makes parse panic.
C15_StepOutAbandonsOnlyThatNode ==
    /\ \A k \in ConsoleRegVisits :
          /\ visited[k].op = "StepOut"
          /\ RestOfNode(dtb.structure, visited[k].at + 1, 0) \cap VisitedAt = {}
          /\ pc = "done" =>
                Followers(dtb.structure, visited[k].at + 1, 1) \subseteq VisitedAt
    /\ ( /\ HasSoc
         /\ Len(ConsoleKids(SocNode)) >= 2
         /\ HeaderTolerated
         /\ PayloadsWellFormed ) => pc # "panic"

\* parse has returned on a blob whose "soc" holds two console nodes: the first
\* has a property and a child after its reg, and the address returned is the
\* one of the second.
C15_Witness ==
    /\ pc = "done"
    /\ HasSoc
    /\ Len(ConsoleKids(SocNode)) = 2
    /\ TbfsOf(ConsoleKids(SocNode)[1]) # <<>>
    /\ ConsoleKids(SocNode)[1].kids # <<>>
    /\ Cardinality(ConsoleRegVisits) = 2
    /\ ans.uart = 8192

\* C16: parse makes a single pass and terminates: the callback is applied to
\* objects in blob order, to none twice, the walk never moves backwards, and
\* on a well-formed blob parse eventually returns a BoardInfo.
C16_SinglePassTerminates ==
    /\ [](\A k \in DOMAIN visited : k > 1 => visited[k - 1].at < visited[k].at)
    /\ [][pos' > pos \/ (pos' = pos /\ pc' # "walk")]_vars
    /\ (HeaderTolerated /\ PayloadsWellFormed) ~> (pc = "done")

\* parse has returned on a well-formed blob with "cpus" and "soc" after
\* presenting at least eight objects to the callback.
C16_Witness ==
    /\ pc = "done"
    /\ HeaderTolerated
    /\ PayloadsWellFormed
    /\ HasCpus
    /\ HasSoc
    /\ Len(visited) >= 8

====
